---- MODULE Spec2Model ----
(***************************************************************************)
(* A model of k2/csrc/context.h: the Region (resizable buffer owned by a  *)
(* Context), the device-copy classifier and copy primitive, the          *)
(* thread-local stream-override stack, and Eval / Eval2.                   *)
(***************************************************************************)
EXTENDS Integers, Sequences, FiniteSets, TLC

\* ------------------------------------------------------------------ bounds
\* size_t is modelled as an unsigned integer of SizeBits bits.
SizeBits == 6
\* NewRegion is called with num_bytes in 0..MaxInitBytes, Extend with
\* new_bytes_used in 0..MaxExtend (and the sizes named below).
MaxInitBytes == 4
MaxExtend == 6
\* At most MaxRefs shared_ptr holders of the Region at a time.
MaxRefs == 2
\* The streams other than the invalid one are 0 (the default stream) ..
\* MaxStream; the override stack holds at most MaxDepth tokens.
MaxStream == 2
MaxDepth == 2
\* The two buffers of a copy hold 1..MaxCopyBytes bytes each.
MaxCopyBytes == 2
\* int32_t is modelled as a signed integer of IntBits bits.
IntBits == 10
\* On the host Eval and Eval2 are called with counts in -MaxEvalN..MaxEvalN
\* (Eval also with the least int32_t).
MaxEvalN == 4

SizeMod == 2 ^ SizeBits
MaxSize == SizeMod - 1
Sizes == 0 .. MaxSize

\* ------------------------------------------------------------- device types
kUnk == "kUnk"
kCuda == "kCuda"
kCpu == "kCpu"
DeviceType == {kUnk, kCuda, kCpu}

MemcpyHostToHost == "MemcpyHostToHost"
MemcpyHostToDevice == "MemcpyHostToDevice"
MemcpyDeviceToHost == "MemcpyDeviceToHost"
MemcpyDeviceToDevice == "MemcpyDeviceToDevice"
MemcpyUnknown == "MemcpyUnknown"
MemoryCopyKind == {MemcpyHostToHost, MemcpyHostToDevice, MemcpyDeviceToHost,
                   MemcpyDeviceToDevice, MemcpyUnknown}

\* The null pointer; a non-null pointer is the index of its block in heap.
NULL == 0

VARIABLES
  context,          \* Region::context: [device_type, tokens] of the owning Context
  data,             \* Region::data
  deleter_context,  \* Region::deleter_context
  num_bytes,        \* Region::num_bytes
  bytes_used,       \* Region::bytes_used
  refs,             \* number of shared_ptr<Region> holders; 0 = destroyed
  heap,             \* every block the Context ever allocated, by pointer
  calls,            \* the Context / copy calls made by the last operation
  last,             \* the last operation: its name, argument, result, and
                    \* the Region's sizes when it was called
  status,           \* "running", "fatal" (process aborted) or "hung"
  stream_override_, \* CudaStreamOverride::stream_override_ of this thread
  stack_,           \* CudaStreamOverride::stack_ of this thread
  scopes,           \* the live With objects, outermost first
  eval_args,        \* the arguments of the last Eval or Eval2
  invoked,          \* the arguments lambda was called with by the last Eval
                    \* or Eval2 on the host, in the order of the calls
  buf,              \* the array an Eval writes its results to
  launch            \* the last kernel launch: its grid and the indexes its
                    \* threads passed to lambda, listed by thread number

regionVars == <<context, data, deleter_context, num_bytes, bytes_used, refs,
                heap, calls>>

streamVars == <<stream_override_, stack_, scopes>>

evalVars == <<eval_args, invoked, buf, launch>>

vars == <<regionVars, last, status, streamVars, evalVars>>

Max(a, b) == IF a >= b THEN a ELSE b

\* ------------------------------------------------------------ fatal checks
\* K2_CHECK(cond) and K2_DCHECK(cond) abort the process when cond is false;
\* the operators are TRUE when the check passes and execution continues.
K2_CHECK(cond) == cond
K2_DCHECK(cond) == cond

\* ----------------------------------------------------------- the heap model
\* The bytes of a fresh block are not initialised: byte k of block p holds
\* the symbolic value <<p, k>>, distinct from every other byte on the heap.
FreshBytes(p, n) == [k \in 0 .. n - 1 |-> <<p, k>>]

\* The value of every byte of a block that has been handed back to the
\* Context: whatever is read there is not the program's data any more.
Freed == <<0, 0>>

\* Context::Allocate(bytes, &deleter_context): NULL when bytes = 0; the token
\* is NULL for some Contexts and identifies the block for others.
Allocate(ctx, h, bytes) ==
  LET p == Len(h) + 1
      tok == IF ctx.tokens THEN SizeMod + p ELSE NULL
  IN IF bytes = 0
       THEN [heap |-> h, ptr |-> NULL, token |-> NULL]
       ELSE [heap |-> Append(h, [size |-> bytes, token |-> tok, ctx |-> ctx,
                                 live |-> TRUE, frees |-> 0,
                                 freed_with |-> NULL, freed_by |-> ctx,
                                 bytes |-> FreshBytes(p, bytes)]),
             ptr |-> p, token |-> tok]

\* Context::Deallocate(data, deleter_context): NULL is accepted and ignored.
Deallocate(ctx, h, ptr, token) ==
  IF ptr = NULL THEN h
  ELSE [h EXCEPT ![ptr].live = FALSE,
                 ![ptr].bytes = [k \in DOMAIN @ |-> Freed],
                 ![ptr].frees = @ + 1,
                 ![ptr].freed_with = token,
                 ![ptr].freed_by = ctx]

\* The bytes the Region's pointer points at.
Bytes(h, ptr) == IF ptr = NULL THEN FreshBytes(NULL, 0) ELSE h[ptr].bytes

\* One entry of the record of calls an operation makes.
Call(name, ptr, token, bytes, src, src_live) ==
  [call |-> name, ptr |-> ptr, token |-> token, bytes |-> bytes, src |-> src,
   src_live |-> src_live]

\* ------------------------------------------------------ the copy classifier
\* Faulty variant of GetMemoryCopyKind: the two mixed pairs are swapped.
GetMemoryCopyKindSwapped(src, dst) ==
  IF src.device_type = kCpu /\ dst.device_type = kCpu
    THEN [fatal |-> FALSE, kind |-> MemcpyHostToHost]
  ELSE IF src.device_type = kCpu /\ dst.device_type = kCuda
    THEN [fatal |-> FALSE, kind |-> MemcpyDeviceToHost]
  ELSE IF src.device_type = kCuda /\ dst.device_type = kCpu
    THEN [fatal |-> FALSE, kind |-> MemcpyHostToDevice]
  ELSE IF src.device_type = kCuda /\ dst.device_type = kCuda
    THEN [fatal |-> FALSE, kind |-> MemcpyDeviceToDevice]
  ELSE [fatal |-> TRUE, kind |-> MemcpyUnknown]

\* GetMemoryCopyKind(src, dst): the kind, and whether K2_LOG(FATAL) was hit.
GetMemoryCopyKind(src, dst) ==
  IF src.device_type = kCpu /\ dst.device_type = kCpu
    THEN [fatal |-> FALSE, kind |-> MemcpyHostToHost]
  ELSE IF src.device_type = kCpu /\ dst.device_type = kCuda
    THEN [fatal |-> FALSE, kind |-> MemcpyHostToDevice]
  ELSE IF src.device_type = kCuda /\ dst.device_type = kCpu
    THEN [fatal |-> FALSE, kind |-> MemcpyDeviceToHost]
  ELSE IF src.device_type = kCuda /\ dst.device_type = kCuda
    THEN [fatal |-> FALSE, kind |-> MemcpyDeviceToDevice]
  ELSE [fatal |-> TRUE, kind |-> MemcpyUnknown]

\* The keys of copy_kind_mappings in MemoryCopy.
copy_kind_mappings ==
  {MemcpyHostToHost, MemcpyHostToDevice, MemcpyDeviceToHost, MemcpyDeviceToDevice}

\* The outcomes of cudaMemcpy.
cudaSuccess == "cudaSuccess"
cudaError == "cudaError"

\* MemoryCopy(dst, src, count, kind) on the heap h; ret is what cudaMemcpy
\* returns.
MemoryCopy(h, dst, src, count, kind, ret) ==
  IF ~K2_CHECK(kind \in copy_kind_mappings) THEN [fatal |-> TRUE, heap |-> h]
  ELSE IF ~K2_CHECK(ret = cudaSuccess) THEN [fatal |-> TRUE, heap |-> h]
  ELSE IF count = 0 THEN [fatal |-> FALSE, heap |-> h]
  ELSE [fatal |-> FALSE,
        heap |-> [h EXCEPT ![dst].bytes =
                   [k \in DOMAIN @ |->
                      IF k < count THEN h[src].bytes[k] ELSE @[k]]]]

\* ------------------------------------------------------------ Region::Extend
\* The value standing for a loop that never ends.
NoReturn == -1

\* i <<= k on a size_t.
ShiftLeft(i, k) == (i * 2 ^ k) % SizeMod

\* while (i < new_size / 8) i <<= 3;   (i = 0 stays 0: the loop never ends)
RECURSIVE Loop8(_, _)
Loop8(i, new_size) ==
  IF i < new_size \div 8
    THEN IF i = 0 THEN NoReturn ELSE Loop8(ShiftLeft(i, 3), new_size)
    ELSE i

\* while (i < new_size) i <<= 1;
RECURSIVE Loop2(_, _)
Loop2(i, new_size) ==
  IF i = NoReturn THEN NoReturn
  ELSE IF i < new_size
    THEN IF i = 0 THEN NoReturn ELSE Loop2(ShiftLeft(i, 1), new_size)
    ELSE i

\* The start value of i.
ExtendFirstSize == 4

\* Faulty variant of ExtendNewSize: the doubling of num_bytes is left out.
ExtendNewSizeNoDoubling(nb, new_bytes_used) ==
  Loop2(Loop8(ExtendFirstSize, new_bytes_used), new_bytes_used)

\* new_size as Extend computes it for a reallocation.
ExtendNewSize(nb, new_bytes_used) ==
  LET new_size == Max((nb * 2) % SizeMod, new_bytes_used)
  IN Loop2(Loop8(ExtendFirstSize, new_size), new_size)

\* Faulty variant of ExtendReturnsEarly: == in place of <=.
ExtendReturnsEarlyIfEqual(used, new_bytes_used) == new_bytes_used = used

\* if (new_bytes_used <= bytes_used) return;
ExtendReturnsEarly(used, new_bytes_used) == new_bytes_used <= used

\* Faulty variants of ExtendReallocates: the comparison is off by one,
\* either way.
ExtendReallocatesLate(nb, new_bytes_used) == nb + 1 < new_bytes_used
ExtendReallocatesWhenFull(nb, new_bytes_used) == nb <= new_bytes_used

\* if (num_bytes < new_bytes_used)
ExtendReallocates(nb, new_bytes_used) == nb < new_bytes_used

\* Faulty variant of ExtendReallocate: the old block is handed back before the copy.
ExtendReallocateFreesFirst(ctx, h, old_data, old_token, used, new_size, alloc_ok, ret) ==
  IF ~alloc_ok
    THEN [fatal |-> TRUE, heap |-> h, data |-> old_data, token |-> old_token,
          calls |-> <<Call("Allocate", NULL, NULL, new_size, NULL, TRUE)>>]
  ELSE
    LET a == Allocate(ctx, h, new_size)
        c1 == Call("Allocate", a.ptr, a.token, new_size, NULL, TRUE)
        h2 == Deallocate(ctx, a.heap, old_data, old_token)
        c2 == Call("Deallocate", old_data, old_token, 0, NULL, TRUE)
        kind == GetMemoryCopyKind(ctx, ctx)
    IN IF kind.fatal
         THEN [fatal |-> TRUE, heap |-> h2, data |-> old_data,
               token |-> old_token, calls |-> <<c1, c2>>]
       ELSE
         LET m == MemoryCopy(h2, a.ptr, old_data, used, kind.kind, ret)
             c3 == Call("MemoryCopy", a.ptr, NULL, used, old_data,
                        old_data = NULL \/ h2[old_data].live)
         IN [fatal |-> m.fatal, heap |-> m.heap,
             data |-> IF m.fatal THEN old_data ELSE a.ptr,
             token |-> IF m.fatal THEN old_token ELSE a.token,
             calls |-> <<c1, c2, c3>>]

\* The reallocate-and-copy block of Extend, in the order of its statements.
ExtendReallocate(ctx, h, old_data, old_token, used, new_size, alloc_ok, ret) ==
  IF ~alloc_ok
    THEN [fatal |-> TRUE, heap |-> h, data |-> old_data, token |-> old_token,
          calls |-> <<Call("Allocate", NULL, NULL, new_size, NULL, TRUE)>>]
  ELSE
    LET a == Allocate(ctx, h, new_size)
        c1 == Call("Allocate", a.ptr, a.token, new_size, NULL, TRUE)
        kind == GetMemoryCopyKind(ctx, ctx)
    IN IF kind.fatal
         THEN [fatal |-> TRUE, heap |-> a.heap, data |-> old_data,
               token |-> old_token, calls |-> <<c1>>]
       ELSE
         LET m == MemoryCopy(a.heap, a.ptr, old_data, used, kind.kind, ret)
             c2 == Call("MemoryCopy", a.ptr, NULL, used, old_data,
                        old_data = NULL \/ a.heap[old_data].live)
         IN IF m.fatal
              THEN [fatal |-> TRUE, heap |-> m.heap, data |-> old_data,
                    token |-> old_token, calls |-> <<c1, c2>>]
            ELSE
              LET h3 == Deallocate(ctx, m.heap, old_data, old_token)
                  c3 == Call("Deallocate", old_data, old_token, 0, NULL, TRUE)
              IN [fatal |-> FALSE, heap |-> h3, data |-> a.ptr,
                  token |-> a.token, calls |-> <<c1, c2, c3>>]

\* What an operation hands back: a stream (OverrideStream), a copy kind
\* (GetMemoryCopyKind; for MemoryCopy the kind it was given), or what a With
\* object found when it was made (~With).
NoScope == [stream_ |-> 0, stack |-> << >>, override |-> 0, nested |-> FALSE]
NoOut == [value |-> 0, kind |-> "none", scope |-> NoScope]

\* What is remembered of an operation: its name, its argument, what it
\* returned, and the Region's sizes when it was called.
Op(name, arg, out) ==
  [op |-> name, arg |-> arg, out |-> out, pre_used |-> bytes_used,
   pre_bytes |-> num_bytes]

\* The sizes NewRegion is called with: the small ones and the 10 bytes of
\* the documented growth example.
InitSizes == (0 .. MaxInitBytes) \cup {10}

\* The arguments Extend is called with: the small ones, the 20 bytes of the
\* growth example, and the sizes around the largest power of two of a size_t.
ExtendArgs ==
  (0 .. MaxExtend) \cup {20} \cup {SizeMod \div 2, SizeMod \div 2 + 1, MaxSize}

Extend(new_bytes_used) ==
  /\ status = "running"
  /\ UNCHANGED evalVars
  /\ refs > 0
  /\ last' = Op("Extend", new_bytes_used, NoOut)
  /\ UNCHANGED <<context, refs, streamVars>>
  /\ IF ExtendReturnsEarly(bytes_used, new_bytes_used)
       THEN /\ calls' = << >>
            /\ UNCHANGED <<data, deleter_context, num_bytes, bytes_used, heap,
                           status>>
     ELSE IF ~ExtendReallocates(num_bytes, new_bytes_used)
       THEN /\ bytes_used' = new_bytes_used
            /\ calls' = << >>
            /\ UNCHANGED <<data, deleter_context, num_bytes, heap, status>>
     ELSE
       LET new_size == ExtendNewSize(num_bytes, new_bytes_used)
       IN IF new_size = NoReturn
            THEN /\ status' = "hung"
                 /\ calls' = << >>
                 /\ UNCHANGED <<data, deleter_context, num_bytes, bytes_used,
                                heap>>
          ELSE \E alloc_ok \in BOOLEAN, ret \in {cudaSuccess, cudaError} :
            LET r == ExtendReallocate(context, heap, data, deleter_context,
                                      bytes_used, new_size, alloc_ok, ret)
            IN /\ heap' = r.heap
               /\ calls' = r.calls
               /\ data' = r.data
               /\ deleter_context' = r.token
               /\ IF r.fatal
                    THEN /\ status' = "fatal"
                         /\ UNCHANGED <<num_bytes, bytes_used>>
                    ELSE /\ num_bytes' = new_size
                         /\ bytes_used' = new_bytes_used
                         /\ UNCHANGED status

\* ---------------------------------------------------- ownership of a Region
\* A copy of the RegionPtr is made.
AddRef ==
  /\ status = "running"
  /\ UNCHANGED evalVars
  /\ refs > 0
  /\ refs < MaxRefs
  /\ refs' = refs + 1
  /\ last' = Op("AddRef", 0, NoOut)
  /\ calls' = << >>
  /\ UNCHANGED <<context, data, deleter_context, num_bytes, bytes_used, heap,
                 status, streamVars>>

\* Faulty variant of RegionDestroy: the token is not passed on.
RegionDestroyNoToken(ctx, h, d, token) == Deallocate(ctx, h, d, NULL)

\* ~Region() { context->Deallocate(data, deleter_context); }
RegionDestroy(ctx, h, d, token) == Deallocate(ctx, h, d, token)

\* A RegionPtr is dropped; the last one runs ~Region().
Release ==
  /\ status = "running"
  /\ UNCHANGED evalVars
  /\ refs > 0
  /\ refs' = refs - 1
  /\ last' = Op("Release", 0, NoOut)
  /\ IF refs = 1
       THEN /\ heap' = RegionDestroy(context, heap, data, deleter_context)
            /\ calls' = <<Call("Deallocate", data, deleter_context, 0, NULL,
                               TRUE)>>
       ELSE /\ calls' = << >>
            /\ UNCHANGED heap
  /\ UNCHANGED <<context, data, deleter_context, num_bytes, bytes_used,
                 status, streamVars>>

\* NewRegion(context, num_bytes): bytes_used == num_bytes on return.
NewRegion(ctx, n) ==
  LET a == Allocate(ctx, << >>, n)
  IN /\ context = ctx
     /\ heap = a.heap
     /\ data = a.ptr
     /\ deleter_context = a.token
     /\ num_bytes = n
     /\ bytes_used = n
     /\ refs = 1
     /\ calls = <<Call("Allocate", a.ptr, a.token, n, NULL, TRUE)>>
     /\ last = [op |-> "NewRegion", arg |-> n, out |-> NoOut, pre_used |-> 0,
                pre_bytes |-> 0]
     /\ status = "running"

Contexts == [device_type : DeviceType, tokens : BOOLEAN]

\* ------------------------------------------------------- the stream override
\* kCudaStreamInvalid is ((cudaStream_t)(~((size_t)0))): all bits set.
kCudaStreamInvalid == MaxSize

Streams == (0 .. MaxStream) \cup {kCudaStreamInvalid}

\* CudaStreamOverride() : stream_override_(0x0) {}, with an empty stack_.
NewStreamOverride ==
  /\ stream_override_ = 0
  /\ stack_ = << >>
  /\ scopes = << >>

\* CudaStreamOverride::OverrideStream(stream) for the override o.
OverrideStream(o, stream) ==
  IF o # 0 /\ stream # kCudaStreamInvalid THEN o ELSE stream

\* A dispatch asks which stream to use.
CallOverrideStream(stream) ==
  /\ status = "running"
  /\ UNCHANGED evalVars
  /\ last' = Op("OverrideStream", stream,
              [NoOut EXCEPT !.value = OverrideStream(stream_override_, stream)])
  /\ UNCHANGED <<regionVars, status, streamVars>>

\* CudaStreamOverride::Push(stream): the new stack_ and stream_override_.
Push(st, o, stream) == [stack |-> Append(st, stream), override |-> stream]

\* Faulty variant of PopChecks: the token is not compared with the top of the stack.
PopChecksNotEmpty(st, stream) == K2_DCHECK(st # << >>)

\* The two checks of Pop: K2_DCHECK(!stack_.empty()) and
\* K2_DCHECK_EQ(stack_.back(), stream); TRUE when both pass.
PopChecks(st, stream) ==
  /\ K2_DCHECK(st # << >>)
  /\ K2_DCHECK(st[Len(st)] = stream)

\* CudaStreamOverride::Pop(stream), its checks passed: stack_.pop_back().
Pop(st, o, stream) == [stack |-> SubSeq(st, 1, Len(st) - 1), override |-> o]

\* g_stream_override.Push(stream), called directly (outside any With scope:
\* the body of a scope calls OverrideStream or opens a nested scope).
CallPush(stream) ==
  /\ status = "running"
  /\ UNCHANGED evalVars
  /\ scopes = << >>
  /\ Len(stack_) < MaxDepth
  /\ LET r == Push(stack_, stream_override_, stream)
     IN /\ stack_' = r.stack
        /\ stream_override_' = r.override
  /\ last' = Op("Push", stream, NoOut)
  /\ UNCHANGED <<regionVars, status, scopes>>

\* g_stream_override.Pop(stream), called directly (outside any With scope).
CallPop(stream) ==
  /\ status = "running"
  /\ UNCHANGED evalVars
  /\ scopes = << >>
  /\ last' = Op("Pop", stream, NoOut)
  /\ IF PopChecks(stack_, stream)
       THEN LET r == Pop(stack_, stream_override_, stream)
            IN /\ stack_' = r.stack
               /\ stream_override_' = r.override
               /\ UNCHANGED status
       ELSE /\ status' = "fatal"
            /\ UNCHANGED <<stack_, stream_override_>>
  /\ UNCHANGED <<regionVars, scopes>>

\* With(stream): stream_ = stream, then g_stream_override.Push(stream_).
\* The With object remembers, for the claims, the override state it found.
EnterWith(stream) ==
  /\ status = "running"
  /\ UNCHANGED evalVars
  /\ Len(stack_) < MaxDepth
  /\ LET r == Push(stack_, stream_override_, stream)
     IN /\ stack_' = r.stack
        /\ stream_override_' = r.override
  /\ scopes' = Append([i \in DOMAIN scopes |->
                         [scopes[i] EXCEPT !.nested = TRUE]],
                      [stream_ |-> stream, stack |-> stack_,
                       override |-> stream_override_, nested |-> FALSE])
  /\ last' = Op("With", stream, NoOut)
  /\ UNCHANGED <<regionVars, status>>

\* ~With() of the innermost live With: g_stream_override.Pop(stream_).
LeaveWith ==
  /\ status = "running"
  /\ UNCHANGED evalVars
  /\ scopes # << >>
  /\ LET w == scopes[Len(scopes)]
     IN /\ last' = Op("~With", w.stream_, [NoOut EXCEPT !.scope = w])
        /\ scopes' = SubSeq(scopes, 1, Len(scopes) - 1)
        /\ IF PopChecks(stack_, w.stream_)
             THEN LET r == Pop(stack_, stream_override_, w.stream_)
                  IN /\ stack_' = r.stack
                     /\ stream_override_' = r.override
                     /\ UNCHANGED status
             ELSE /\ status' = "fatal"
                  /\ UNCHANGED <<stack_, stream_override_>>
  /\ UNCHANGED regionVars

\* The thread has no Region.
NoRegionFields ==
  /\ data = NULL
  /\ deleter_context = NULL
  /\ num_bytes = 0
  /\ bytes_used = 0
  /\ refs = 0
  /\ calls = << >>
  /\ last = [op |-> "none", arg |-> 0, out |-> NoOut, pre_used |-> 0,
             pre_bytes |-> 0]
  /\ status = "running"

NoRegion ==
  /\ context = [device_type |-> kCpu, tokens |-> FALSE]
  /\ heap = << >>
  /\ NoRegionFields

(***************************************************************************)
(* Eval and Eval2.                                                         *)
(***************************************************************************)
IntMod == 2 ^ IntBits
IntMax == 2 ^ (IntBits - 1) - 1
IntMin == -(2 ^ (IntBits - 1))
Int32 == IntMin .. IntMax

\* The conversion of an integer to int32_t: the value modulo 2^IntBits.
ToInt32(x) == ((x - IntMin) % IntMod) + IntMin

\* The / of two int32_t, which truncates toward zero (block_size > 0).
TruncDiv(a, b) == IF a >= 0 THEN a \div b ELSE -((-a) \div b)

\* The lambdas an Eval is called with, and the value each returns.
Lambdas == {"square", "plus_ten"}
Lambda(f, i) == IF f = "square" THEN i * i ELSE i + 10

\* The array of the data variant: BufLen elements, data[0 .. BufLen - 1],
\* which hold OldValue(k) until an Eval writes them.
BufLen == MaxEvalN + 1
OldValue(k) == -(k + 1)
NewBuf == [k \in 0 .. BufLen - 1 |-> OldValue(k)]

NoLaunch == [grid_size |-> <<0, 0>>, x |-> << >>, y |-> << >>,
             err |-> cudaSuccess]
NoArgs == [stream |-> kCudaStreamInvalid, m |-> 0, n |-> 0, lambda |-> "none"]

NewEval ==
  /\ eval_args = NoArgs
  /\ invoked = << >>
  /\ buf = NewBuf
  /\ launch = NoLaunch

\* NumBlocks(size, block_size): the values (size + block_size - 1) /
\* block_size can return.  The sum is an int32_t sum: when it overflows the
\* behaviour is undefined, and a build returns the quotient of the wrapped
\* sum, or (having concluded from size > 0 that the sum is positive) the
\* quotient of the exact sum.
NumBlocksOverflows(size, block_size) ==
  \/ size + block_size \notin Int32
  \/ size + block_size - 1 \notin Int32
NumBlocks(size, block_size) ==
  LET sum == size + block_size - 1
  IN  IF NumBlocksOverflows(size, block_size)
      THEN {TruncDiv(ToInt32(sum), block_size), TruncDiv(sum, block_size)}
      ELSE {TruncDiv(sum, block_size)}

\* The index a thread of a kernel computes:
\* int32_t i = blockIdx.x * blockDim.x + threadIdx.x (an unsigned sum).
KernelIndex(blockIdx, blockDim, threadIdx) ==
  ToInt32((blockIdx * blockDim + threadIdx) % IntMod)

\* The indexes that pass the guard i < n of a kernel, over the threads of
\* one dimension of a grid of grid_size blocks of block_size threads, listed
\* by thread number.
GuardedIndexes(n, grid_size, block_size) ==
  SelectSeq([t \in 1 .. grid_size * block_size |->
               KernelIndex((t - 1) \div block_size, block_size,
                           (t - 1) % block_size)],
            LAMBDA i : i < n)

\* <<<grid_size, block_size, 0, stream>>>: a grid with a dimension that is
\* not positive (as an unsigned number: zero, or beyond what a grid may
\* have) is not launched, and cudaGetLastError() returns an error.
LaunchFails(grid_size) == grid_size[1] <= 0 \/ grid_size[2] <= 0

EvalBlockSize == 256
Eval2BlockSize == 16

\* eval_lambda<<<grid_size, block_size, 0, stream>>>(n, lambda)
eval_lambda(grid_size, block_size, n) ==
  IF LaunchFails(<<grid_size, 1>>)
  THEN [grid_size |-> <<grid_size, 1>>, x |-> << >>, y |-> << >>,
        err |-> cudaError]
  ELSE [grid_size |-> <<grid_size, 1>>,
        x |-> GuardedIndexes(n, grid_size, block_size), y |-> << >>,
        err |-> cudaSuccess]

\* eval_lambda2<<<grid_size, block_size, 0, stream>>>(m, n, lambda): lambda
\* is called with (i, j) for every i of y and every j of x.
eval_lambda2(grid_size, block_size, m, n) ==
  IF LaunchFails(grid_size)
  THEN [grid_size |-> grid_size, x |-> << >>, y |-> << >>, err |-> cudaError]
  ELSE [grid_size |-> grid_size,
        x |-> GuardedIndexes(n, grid_size[1], block_size),
        y |-> GuardedIndexes(m, grid_size[2], block_size),
        err |-> cudaSuccess]

RECURSIVE EvalLoopFromOne(_, _, _)
RECURSIVE EvalLoop(_, _, _)
RECURSIVE Eval2LoopColumnMajor(_, _, _, _, _)
RECURSIVE Eval2Loop(_, _, _, _, _)

\* Faulty variant of EvalLoop: the loop starts at 1.
EvalLoopFromOne(i, n, tr) ==
  IF i + 1 < n THEN EvalLoopFromOne(i + 1, n, Append(tr, <<i + 1>>)) ELSE tr

\* for (int32_t i = 0; i < n; ++i) lambda(i): the calls of lambda from i on,
\* appended to tr.
EvalLoop(i, n, tr) ==
  IF i < n THEN EvalLoop(i + 1, n, Append(tr, <<i>>)) ELSE tr

\* for (int32_t i = 0; i < n; ++i) data[i] = lambda(i): the array after the
\* loop.
EvalStore(d, n, f) ==
  [k \in DOMAIN d |-> IF 0 <= k /\ k < n THEN Lambda(f, k) ELSE d[k]]

\* data[i] = lambda(i) by the threads of a kernel: the array after it.
KernelStore(d, x, f) ==
  [k \in DOMAIN d |->
     IF \E t \in 1 .. Len(x) : x[t] = k THEN Lambda(f, k) ELSE d[k]]

\* Faulty variant of Eval2Loop: i varies fastest.
Eval2LoopColumnMajor(i, j, m, n, tr) ==
  IF j >= n THEN tr
  ELSE IF i >= m THEN Eval2LoopColumnMajor(0, j + 1, m, n, tr)
  ELSE Eval2LoopColumnMajor(i + 1, j, m, n, Append(tr, <<i, j>>))

\* for (i = 0; i < m; ++i) for (j = 0; j < n; ++j) lambda(i, j): the calls
\* of lambda from (i, j) on, appended to tr.
Eval2Loop(i, j, m, n, tr) ==
  IF i >= m THEN tr
  ELSE IF j >= n THEN Eval2Loop(i + 1, 0, m, n, tr)
  ELSE Eval2Loop(i, j + 1, m, n, Append(tr, <<i, j>>))

\* if (n <= 0) return;
EvalReturnsEarly(n) == n <= 0

\* if (m <= 0 || n <= 0) return;
Eval2ReturnsEarly(m, n) == m <= 0 \/ n <= 0

\* void Eval(cudaStream_t stream, int32_t n, LambdaT &lambda)
Eval(stream, n, f) ==
  /\ status = "running"
  /\ UNCHANGED <<regionVars, streamVars, buf>>
  /\ eval_args' = [stream |-> stream, m |-> 0, n |-> n, lambda |-> f]
  /\ last' = Op("Eval", n, NoOut)
  /\ IF EvalReturnsEarly(n)
     THEN invoked' = << >> /\ launch' = NoLaunch /\ status' = status
     ELSE IF stream = kCudaStreamInvalid
     THEN /\ invoked' = EvalLoop(0, n, << >>)
          /\ launch' = NoLaunch
          /\ status' = status
     ELSE \E grid_size \in NumBlocks(n, EvalBlockSize) :
            LET l == eval_lambda(grid_size, EvalBlockSize, n)
            IN  /\ launch' = l
                /\ invoked' = << >>
                /\ status' = IF K2_DCHECK(l.err = cudaSuccess)
                             THEN status ELSE "fatal"

\* void Eval(cudaStream_t stream, T *data, int32_t n, LambdaT &lambda)
EvalData(stream, n, f) ==
  /\ status = "running"
  /\ UNCHANGED <<regionVars, streamVars>>
  /\ eval_args' = [stream |-> stream, m |-> 0, n |-> n, lambda |-> f]
  /\ last' = Op("EvalData", n, NoOut)
  /\ IF EvalReturnsEarly(n)
     THEN /\ invoked' = << >> /\ launch' = NoLaunch /\ status' = status
          /\ buf' = buf
     ELSE IF stream = kCudaStreamInvalid
     THEN /\ invoked' = EvalLoop(0, n, << >>)
          /\ buf' = EvalStore(buf, n, f)
          /\ launch' = NoLaunch
          /\ status' = status
     ELSE \E grid_size \in NumBlocks(n, EvalBlockSize) :
            LET l == eval_lambda(grid_size, EvalBlockSize, n)
            IN  /\ launch' = l
                /\ invoked' = << >>
                /\ buf' = KernelStore(buf, l.x, f)
                /\ status' = IF K2_DCHECK(l.err = cudaSuccess)
                             THEN status ELSE "fatal"

\* void Eval2(cudaStream_t stream, int32_t m, int32_t n, LambdaT &lambda)
Eval2(stream, m, n, f) ==
  /\ status = "running"
  /\ UNCHANGED <<regionVars, streamVars, buf>>
  /\ eval_args' = [stream |-> stream, m |-> m, n |-> n, lambda |-> f]
  /\ last' = Op("Eval2", n, NoOut)
  /\ IF Eval2ReturnsEarly(m, n)
     THEN invoked' = << >> /\ launch' = NoLaunch /\ status' = status
     ELSE IF stream = kCudaStreamInvalid
     THEN /\ invoked' = Eval2Loop(0, 0, m, n, << >>)
          /\ launch' = NoLaunch
          /\ status' = status
     ELSE \E gx \in NumBlocks(n, Eval2BlockSize),
             gy \in NumBlocks(m, Eval2BlockSize) :
            LET l == eval_lambda2(<<gx, gy>>, Eval2BlockSize, m, n)
            IN  /\ launch' = l
                /\ invoked' = << >>
                /\ status' = IF K2_DCHECK(l.err = cudaSuccess)
                             THEN status ELSE "fatal"

\* Eval and Eval2 on the host: the stream is kCudaStreamInvalid.
HostCounts == (-MaxEvalN .. MaxEvalN) \cup {IntMin}
DataCounts == -MaxEvalN .. MaxEvalN

InitEval == NoRegion /\ NewStreamOverride /\ NewEval

NextEval ==
  \/ \E n \in HostCounts, f \in Lambdas : Eval(kCudaStreamInvalid, n, f)
  \/ \E n \in DataCounts, f \in Lambdas : EvalData(kCudaStreamInvalid, n, f)
  \/ \E m \in DataCounts, n \in DataCounts, f \in Lambdas :
       Eval2(kCudaStreamInvalid, m, n, f)

SpecEval == InitEval /\ [][NextEval]_vars

\* Eval and Eval2 on a device: one call, on a stream of the device.  Eval
\* is called with every count an int32_t holds that is not below -1, Eval2
\* with the counts around a block and around the greatest int32_t.
LaunchCounts == -1 .. IntMax
Launch2Counts ==
  {-1, 0, 1, Eval2BlockSize, Eval2BlockSize + 1,
   IntMax - Eval2BlockSize, IntMax - Eval2BlockSize + 1, IntMax - 1, IntMax}

InitLaunch == NoRegion /\ NewStreamOverride /\ NewEval

EvalOnce(stream, n, f) == last.op = "none" /\ Eval(stream, n, f)
EvalDataOnce(stream, n, f) == last.op = "none" /\ EvalData(stream, n, f)
Eval2Once(stream, m, n, f) == last.op = "none" /\ Eval2(stream, m, n, f)

NextLaunch ==
  \/ \E stream \in 0 .. MaxStream, n \in LaunchCounts, f \in Lambdas :
       EvalOnce(stream, n, f)
  \/ \E stream \in 0 .. MaxStream, n \in DataCounts, f \in Lambdas :
       EvalDataOnce(stream, n, f)
  \/ \E stream \in 0 .. MaxStream, m \in Launch2Counts, n \in Launch2Counts,
        f \in Lambdas : Eval2Once(stream, m, n, f)

SpecLaunch == InitLaunch /\ [][NextLaunch]_vars


InitStream == NoRegion /\ NewStreamOverride /\ NewEval

NextStream ==
  \/ \E stream \in Streams : CallOverrideStream(stream)
  \/ \E stream \in Streams : CallPush(stream)
  \/ \E stream \in Streams : CallPop(stream)
  \/ \E stream \in Streams : EnterWith(stream)
  \/ LeaveWith

SpecStream == InitStream /\ [][NextStream]_vars

\* ------------------------------------------------- copies between contexts
\* The source buffer is block 1, of Context heap[1].ctx; the destination
\* buffer is block 2, of Context heap[2].ctx.
SrcBuffer == 1
DstBuffer == 2

InitCopy ==
  /\ \E src \in Contexts, dst \in Contexts, n \in 1 .. MaxCopyBytes :
       /\ heap = Allocate(dst, Allocate(src, << >>, n).heap, n).heap
       /\ context = src
  /\ NoRegionFields
  /\ NewStreamOverride
  /\ NewEval

\* auto kind = GetMemoryCopyKind(src, dst) for the Contexts of the two buffers.
CallGetMemoryCopyKind ==
  /\ status = "running"
  /\ UNCHANGED evalVars
  /\ LET k == GetMemoryCopyKind(heap[SrcBuffer].ctx, heap[DstBuffer].ctx)
     IN /\ last' = Op("GetMemoryCopyKind", 0,
                      [NoOut EXCEPT !.kind = IF k.fatal THEN "none" ELSE k.kind])
        /\ status' = IF k.fatal THEN "fatal" ELSE "running"
  /\ calls' = << >>
  /\ UNCHANGED <<context, data, deleter_context, num_bytes, bytes_used, refs,
                 heap, streamVars>>

\* MemoryCopy(dst, src, count, kind) on the two buffers.
CallMemoryCopy(kind, count, ret) ==
  /\ status = "running"
  /\ UNCHANGED evalVars
  /\ count <= heap[SrcBuffer].size
  /\ LET m == MemoryCopy(heap, DstBuffer, SrcBuffer, count, kind, ret)
     IN /\ heap' = m.heap
        /\ status' = IF m.fatal THEN "fatal" ELSE "running"
        /\ calls' = IF m.fatal THEN << >>
                    ELSE <<Call("MemoryCopy", DstBuffer, NULL, count, SrcBuffer,
                                heap[SrcBuffer].live)>>
  /\ last' = Op("MemoryCopy", count, [NoOut EXCEPT !.kind = kind])
  /\ UNCHANGED <<context, data, deleter_context, num_bytes, bytes_used, refs,
                 streamVars>>

NextCopy ==
  \/ CallGetMemoryCopyKind
  \/ \E kind \in MemoryCopyKind, count \in 0 .. MaxCopyBytes,
        ret \in {cudaSuccess, cudaError} : CallMemoryCopy(kind, count, ret)

SpecCopy == InitCopy /\ [][NextCopy]_vars

\* --------------------------------------------------------- the Region's life
Init ==
  /\ \E ctx \in Contexts, n \in InitSizes : NewRegion(ctx, n)
  /\ NewStreamOverride
  /\ NewEval

Next ==
  \/ \E new_bytes_used \in ExtendArgs : Extend(new_bytes_used)
  \/ AddRef
  \/ Release

Spec == Init /\ [][Next]_vars

\* One Region, one Extend: every size a size_t holds, as the size of the
\* Region and as the argument.
InitGrow ==
  /\ \E ctx \in Contexts, n \in Sizes : NewRegion(ctx, n)
  /\ NewStreamOverride
  /\ NewEval

ExtendNew(new_bytes_used) ==
  /\ last.op = "NewRegion"
  /\ Extend(new_bytes_used)

NextGrow == \E new_bytes_used \in Sizes : ExtendNew(new_bytes_used)

SpecGrow == InitGrow /\ [][NextGrow]_vars

\* ------------------------------------------------------------------ claims
\* The last operation was an Extend that returned to its caller.
ExtendReturned == last.op = "Extend" /\ status = "running"

\* The last operation was an Extend that had to reallocate, and returned.
Regrown == ExtendReturned /\ last.pre_bytes < last.arg

\* This step is a call of Extend (every operation records itself in last).
ExtendStep ==
  /\ last'.op = "Extend"
  /\ last'.pre_used = bytes_used
  /\ last'.pre_bytes = num_bytes
  /\ <<last', calls', status', heap'>> # <<last, calls, status, heap>>

\* C1: bytes_used <= num_bytes in every state a Region created with
\* bytes_used = num_bytes reaches by calls of Extend.
C1_BytesUsedWithinNumBytes == bytes_used <= num_bytes

\* An Extend that reallocated has returned, with bytes_used below num_bytes.
C1_Witness == Regrown /\ bytes_used = last.arg /\ bytes_used < num_bytes

\* C2: no block is handed to Deallocate twice; a block that was handed back
\* was handed back to the Context that allocated it, with the token Allocate
\* returned for it; while the Region lives exactly its own block is live;
\* once the Region is destroyed every block has been handed back once.
C2_EachBlockDeallocatedOnce ==
  \A p \in DOMAIN heap :
    /\ heap[p].frees <= 1
    /\ heap[p].live <=> heap[p].frees = 0
    /\ heap[p].frees = 1 =>
         /\ heap[p].freed_with = heap[p].token
         /\ heap[p].freed_by = heap[p].ctx
    /\ (status = "running" /\ refs > 0) => (heap[p].live <=> p = data)
    /\ refs = 0 => heap[p].frees = 1

\* A Region of a Context that hands out tokens was destroyed after two
\* reallocations.
C2_Witness ==
  /\ refs = 0
  /\ Len(heap) >= 3
  /\ context.tokens
  /\ \A p \in DOMAIN heap : heap[p].frees = 1 /\ heap[p].freed_with # NULL

\* The powers of two, and the smallest one not below x.
Pow2s == {2 ^ k : k \in 0 .. SizeBits}
NextPow2(x) == CHOOSE p \in Pow2s : p >= x /\ \A q \in Pow2s : q >= x => p <= q

\* The largest power of two a size_t holds.
MaxPow2 == SizeMod \div 2

\* C3 as stated: after an Extend that reallocated, num_bytes is the smallest
\* power of two not below max(2 * num_bytes, new_bytes_used).
C3_Original ==
  Regrown => num_bytes = NextPow2(Max(2 * last.pre_bytes, last.arg))

\* C3 amended: an Extend that must reallocate returns exactly when
\* max(2 * num_bytes, new_bytes_used) is at most the largest power of two of
\* a size_t (else its rounding loop never ends), and then num_bytes is the
\* smallest power of two not below max(4, 2 * num_bytes, new_bytes_used).
C3_NextPow2AtLeastFour ==
  (last.op = "Extend" /\ last.pre_bytes < last.arg) =>
    LET m == Max(2 * last.pre_bytes, last.arg)
    IN IF m <= MaxPow2
         THEN /\ status # "hung"
              /\ status = "running" =>
                   num_bytes = NextPow2(Max(ExtendFirstSize, m))
         ELSE status = "hung" /\ num_bytes = last.pre_bytes

\* An Extend to 1, 2 or 3 bytes reallocated an empty Region.
C3_Witness ==
  Regrown /\ last.pre_bytes = 0 /\ last.arg \in 1 .. 3 /\ num_bytes = 4

\* C4: an Extend that reallocates calls Allocate, then copies exactly the
\* old bytes_used bytes out of the old block while it is still live, then
\* hands the old block back; on return the first old-bytes_used bytes are the
\* bytes from before, the bytes after them are those of the fresh block, and
\* bytes_used is the argument (10 bytes extended to 20 gives num_bytes 32).
C4_CopyBeforeDeallocate ==
  [][(ExtendStep /\ num_bytes < last'.arg /\ status' = "running") =>
       /\ Len(calls') = 3
       /\ calls'[1].call = "Allocate" /\ calls'[1].ptr = data'
       /\ calls'[1].bytes = num_bytes'
       /\ calls'[2].call = "MemoryCopy" /\ calls'[2].ptr = data'
       /\ calls'[2].src = data /\ calls'[2].bytes = bytes_used
       /\ calls'[2].src_live
       /\ calls'[3].call = "Deallocate" /\ calls'[3].ptr = data
       /\ \A k \in 0 .. bytes_used - 1 :
            Bytes(heap', data')[k] = Bytes(heap, data)[k]
       /\ \A k \in bytes_used .. num_bytes' - 1 :
            Bytes(heap', data')[k] = <<data', k>>
       /\ bytes_used' = last'.arg
       /\ (num_bytes = 10 /\ last'.arg = 20) => num_bytes' = 32]_vars

\* The 10-byte Region was extended to 20 bytes and still starts with the
\* bytes of its first block.
C4_Witness ==
  /\ Regrown /\ last.pre_bytes = 10 /\ last.pre_used = 10 /\ last.arg = 20
  /\ num_bytes = 32 /\ bytes_used = 20
  /\ \A k \in 0 .. 9 : Bytes(heap, data)[k] = <<1, k>>

\* C5: Extend(b) with b <= bytes_used changes nothing of the Region or of
\* the heap and calls neither Allocate nor Deallocate.
C5_ExtendBelowUsedIsNoop ==
  [][(ExtendStep /\ last'.arg <= bytes_used) =>
       /\ UNCHANGED <<bytes_used, num_bytes, data, deleter_context, heap>>
       /\ calls' = << >>
       /\ status' = "running"]_vars

\* Extend was called with less than bytes_used on a Region holding bytes.
C5_Witness ==
  /\ ExtendReturned /\ last.arg < last.pre_used /\ data # NULL
  /\ bytes_used = last.pre_used

\* C6: Extend(b) with bytes_used < b <= num_bytes sets bytes_used to b and
\* changes nothing else; the Context sees no Allocate, copy or Deallocate.
C6_ExtendClaimsTail ==
  [][(ExtendStep /\ bytes_used < last'.arg /\ last'.arg <= num_bytes) =>
       /\ bytes_used' = last'.arg
       /\ UNCHANGED <<num_bytes, data, deleter_context, heap>>
       /\ calls' = << >>
       /\ status' = "running"]_vars

\* Extend claimed the whole tail of a reallocated block.
C6_Witness ==
  /\ ExtendReturned /\ last.pre_used < last.arg /\ last.arg = last.pre_bytes
  /\ bytes_used = num_bytes /\ Len(heap) >= 2

\* The top of the override stack.
Top(st) == st[Len(st)]

\* C7 as stated: OverrideStream(s) returns the top of the stack when the
\* stack is not empty and s is not the invalid stream, and s otherwise.
C7_Original ==
  \A s \in Streams :
    OverrideStream(stream_override_, s) =
      IF stack_ # << >> /\ s # kCudaStreamInvalid THEN Top(stack_) ELSE s

\* C8 as stated: when the outer of two nested With scopes has been left, the
\* stack and the active override are what they were when it was entered.
C8_Original ==
  (last.op = "~With" /\ status = "running" /\ last.out.scope.nested) =>
    /\ stack_ = last.out.scope.stack
    /\ stream_override_ = last.out.scope.override

\* This step is a call of Pop, directly or from ~With.
PopStep ==
  /\ last'.op \in {"Pop", "~With"}
  /\ <<last', stack_', status'>> # <<last, stack_, status>>

\* C9: Pop(t) is fatal and removes nothing when the stack is empty or its top
\* is not t; it removes the top entry, and only it, when the top is t.
C9_PopChecksTop ==
  [][PopStep =>
       IF stack_ = << >> \/ Top(stack_) # last'.arg
         THEN status' = "fatal" /\ stack_' = stack_
         ELSE /\ status' = "running"
              /\ stack_' = SubSeq(stack_, 1, Len(stack_) - 1)]_vars

\* Pop(A) was fatal with B on top of A.
C9_Witness ==
  /\ last.op = "Pop" /\ status = "fatal"
  /\ Len(stack_) = 2 /\ stack_[1] = last.arg /\ stack_[2] # last.arg

\* The kind of copy between two device types, when there is one.
CopyKindOf(src, dst) ==
  IF src = kCpu /\ dst = kCpu THEN MemcpyHostToHost
  ELSE IF src = kCpu /\ dst = kCuda THEN MemcpyHostToDevice
  ELSE IF src = kCuda /\ dst = kCpu THEN MemcpyDeviceToHost
  ELSE IF src = kCuda /\ dst = kCuda THEN MemcpyDeviceToDevice
  ELSE "none"

\* C10: GetMemoryCopyKind returns the kind of the pair for the four pairs of
\* host and accelerator and is fatal when either device type is unknown;
\* MemoryCopy is fatal, and transfers nothing, for MemcpyUnknown.
C10_ClassifierAndCopy ==
  [][/\ (last'.op = "GetMemoryCopyKind" /\ last' # last) =>
          LET src == heap[SrcBuffer].ctx.device_type
              dst == heap[DstBuffer].ctx.device_type
          IN /\ last'.out.kind = CopyKindOf(src, dst)
             /\ status' = "fatal" <=> (src = kUnk \/ dst = kUnk)
             /\ heap' = heap
     /\ (last'.op = "MemoryCopy" /\ last'.out.kind = MemcpyUnknown
           /\ <<last', status'>> # <<last, status>>) =>
          /\ status' = "fatal"
          /\ heap' = heap
          /\ calls' = << >>]_vars

\* The classifier was fatal for an accelerator source and an unknown
\* destination.
C10_Witness ==
  /\ last.op = "GetMemoryCopyKind" /\ status = "fatal"
  /\ heap[SrcBuffer].ctx.device_type = kCuda
  /\ heap[DstBuffer].ctx.device_type = kUnk


\* A call on the host: the stream is kCudaStreamInvalid.
OnHost(args) == args.stream = kCudaStreamInvalid

\* C11: for every n, Eval on the host stream calls lambda with exactly
\* 0, 1, ..., n - 1, in ascending order and each once, and with nothing when
\* n <= 0; the data variant moreover leaves data[i] = lambda(i) for every i
\* of [0, n) and every other element as it was, and the variant without
\* data writes no element.
C11_HostEvalAscending ==
  [][(last'.op \in {"Eval", "EvalData"} /\ OnHost(eval_args')) =>
       LET n == eval_args'.n
           f == eval_args'.lambda
       IN  /\ status' = "running"
           /\ Len(invoked') = Max(n, 0)
           /\ \A k \in 1 .. Len(invoked') : invoked'[k] = <<k - 1>>
           /\ n <= 0 => invoked' = << >>
           /\ \A k \in DOMAIN buf :
                buf'[k] = IF last'.op = "EvalData" /\ 0 <= k /\ k < n
                          THEN Lambda(f, k) ELSE buf[k]]_vars

\* Eval(stream, data, 3, square) on the host, after a call that wrote all
\* of data[0 .. 3]: lambda was called with 0, 1, 2 and data[3] is kept.
C11_Witness ==
  /\ last.op = "EvalData" /\ OnHost(eval_args)
  /\ eval_args.n = 3 /\ eval_args.lambda = "square"
  /\ invoked = << <<0>>, <<1>>, <<2>> >>
  /\ buf[0] = 0 /\ buf[1] = 1 /\ buf[2] = 4
  /\ buf[3] = Lambda("plus_ten", 3)

\* C12: for every m and n, Eval2 on the host stream calls lambda exactly
\* once with each pair (i, j) of [0, m) x [0, n) and with no other pair, in
\* row-major order (j varies fastest), and never when m <= 0 or n <= 0.
C12_HostEval2RowMajor ==
  (last.op = "Eval2" /\ OnHost(eval_args)) =>
    LET m == eval_args.m
        n == eval_args.n
    IN  /\ status = "running"
        /\ (m <= 0 \/ n <= 0) => invoked = << >>
        /\ (m > 0 /\ n > 0) =>
             /\ Len(invoked) = m * n
             /\ \A k \in 1 .. m * n :
                  invoked[k] = <<(k - 1) \div n, (k - 1) % n>>

\* Eval2(host, 2, 3, f) has called lambda with the six pairs, row by row.
C12_Witness ==
  /\ last.op = "Eval2" /\ OnHost(eval_args)
  /\ eval_args.m = 2 /\ eval_args.n = 3
  /\ invoked = << <<0, 0>>, <<0, 1>>, <<0, 2>>, <<1, 0>>, <<1, 1>>, <<1, 2>> >>


\* ceil(n / block_size) in exact arithmetic.
Ceil(n, block_size) == (n + block_size - 1) \div block_size

\* The threads whose indexes are listed in x apply lambda to every index of
\* [0, n) exactly once and to no index outside it.
ExactlyOnce(x, n) ==
  /\ Len(x) = n
  /\ {x[t] : t \in 1 .. Len(x)} = 0 .. n - 1

\* C13 as stated: on a device stream, for every positive int32_t n, the
\* grid of Eval has ceil(n / 256) blocks and its guarded threads apply
\* lambda to every index of [0, n) exactly once and to none outside; and
\* the same holds in each dimension of the grid of Eval2, with blocks of 16.
C13_Original ==
  LET m == eval_args.m
      n == eval_args.n
  IN  /\ (last.op = "Eval" /\ ~OnHost(eval_args) /\ n > 0) =>
           /\ launch.grid_size[1] = Ceil(n, EvalBlockSize)
           /\ ExactlyOnce(launch.x, n)
      /\ (last.op = "Eval2" /\ ~OnHost(eval_args) /\ m > 0 /\ n > 0) =>
           /\ launch.grid_size = <<Ceil(n, Eval2BlockSize),
                                   Ceil(m, Eval2BlockSize)>>
           /\ ExactlyOnce(launch.x, n)
           /\ ExactlyOnce(launch.y, m)

====
